---- MODULE Spec2Model ----
(***************************************************************************)
(* Model of the COVID-19 Chile chart: the CSV loader of initChart, the     *)
(* draw pipeline, and the debounced resize redraw of makeResponsive.       *)
(*                                                                         *)
(* The repository holds two variants of the chart module:                  *)
(*   "A"  src/assets/js/chart.js     with src/assets/js/config.js 1-116    *)
(*   "B"  src/unnamed/part_000       with src/assets/js/config.js 117-279  *)
(* utils.js is shared.  The variable `variant` says which one runs.        *)
(*                                                                         *)
(* Text is a sequence of one-character strings, so that the conversions    *)
(* of the loader (d3.timeParse, unary plus) are computed from the text.    *)
(* Numbers are kept in hundredths (10.13 is 1013).  Dates are day numbers  *)
(* (days since 1970-01-01); the time of day and the time zone are not      *)
(* modelled.                                                               *)
(***************************************************************************)
EXTENDS Integers, Sequences, FiniteSets, TLC

(***************************************************************************)
(* Bounds of the model.                                                    *)
(***************************************************************************)
\* longest CSV body (data rows after the header)
MaxRows == 2
\* resize events delivered to the window
MaxResizes == 2
\* milliseconds that pass in one Tick
Quantum == 125

(***************************************************************************)
(* Text helpers.                                                           *)
(***************************************************************************)
Digits == {"0", "1", "2", "3", "4", "5", "6", "7", "8", "9"}

DigitVal ==
  "0" :> 0 @@ "1" :> 1 @@ "2" :> 2 @@ "3" :> 3 @@ "4" :> 4 @@
  "5" :> 5 @@ "6" :> 6 @@ "7" :> 7 @@ "8" :> 8 @@ "9" :> 9

AllDigits(s) == \A i \in 1..Len(s) : s[i] \in Digits

\* the value of the n digits of s from position i on
RECURSIVE DigitsAt(_, _, _)
DigitsAt(s, i, n) ==
  IF n = 0 THEN 0
  ELSE DigitsAt(s, i, n - 1) * 10 + DigitVal[s[i + n - 1]]

DigitsValue(s) == DigitsAt(s, 1, Len(s))

\* number of leading digits of s from position i on, looking at no more
\* than max characters: /^\d+/ applied to string.slice(i, i + max)
RECURSIVE TakeDigits(_, _, _)
TakeDigits(s, i, max) ==
  IF max = 0 \/ i > Len(s) \/ s[i] \notin Digits THEN 0
  ELSE 1 + TakeDigits(s, i + 1, max - 1)

(***************************************************************************)
(* JavaScript values of a parsed row.                                      *)
(***************************************************************************)
Num(v) == [type |-> "number", kind |-> "finite", v |-> v]
NaN == [type |-> "number", kind |-> "nan", v |-> 0]
Infinity(sign) == [type |-> "number", kind |-> "infinite", v |-> sign]

DateOf(t) == [type |-> "Date", t |-> t]
Null == [type |-> "null", t |-> 0]

isNaN(x) == x.kind = "nan"
isFinite(x) == x.kind = "finite"

(***************************************************************************)
(* new Date(y, m0, d): the day number of year y, zero-based month m0 and   *)
(* day d, where a month outside 0..11 or a day outside the month rolls     *)
(* over into the neighbouring months, as the Date constructor does.        *)
(***************************************************************************)
DaysFromCivil(y, m, d) ==
  LET yy == IF m <= 2 THEN y - 1 ELSE y
      era == yy \div 400
      yoe == yy - era * 400
      mp == IF m > 2 THEN m - 3 ELSE m + 9
      doy == (153 * mp + 2) \div 5 + d - 1
      doe == yoe * 365 + yoe \div 4 - yoe \div 100 + doy
  IN era * 146097 + doe - 719468

localDate(y, m0, d) ==
  DateOf(DaysFromCivil(y + (m0 \div 12), (m0 % 12) + 1, 1) + (d - 1))

\* In the definitions below, CHOOSE r \in {F(x) : x \in {e}} : TRUE is F(e),
\* written so that e is computed once however often F uses it.

(***************************************************************************)
(* d3.timeParse('%Y-%m-%d'): up to four digits, "-", up to two digits,     *)
(* "-", up to two digits, and nothing after them; null otherwise.  The     *)
(* fields are not range-checked: they go to the Date constructor as read.  *)
(***************************************************************************)
parseFields(s, ny, nm, nd) ==
  IF /\ ny >= 1
     /\ 1 + ny <= Len(s) /\ s[1 + ny] = "-"
     /\ nm >= 1
     /\ 2 + ny + nm <= Len(s) /\ s[2 + ny + nm] = "-"
     /\ nd >= 1
     /\ 2 + ny + nm + nd = Len(s)
  THEN CHOOSE r \in {localDate(y, m - 1, d) :
                       y \in {DigitsAt(s, 1, ny)},
                       m \in {DigitsAt(s, 2 + ny, nm)},
                       d \in {DigitsAt(s, 3 + ny + nm, nd)}} : TRUE
  ELSE Null

parseDay(s, ny, nm) ==
  CHOOSE r \in {parseFields(s, ny, nm, nd) :
                  nd \in {TakeDigits(s, 3 + ny + nm, 2)}} : TRUE

parseMonth(s, ny) ==
  CHOOSE r \in {parseDay(s, ny, nm) : nm \in {TakeDigits(s, 2 + ny, 2)}} : TRUE

parseYear(s) ==
  CHOOSE r \in {parseMonth(s, ny) : ny \in {TakeDigits(s, 1, 4)}} : TRUE

timeParse(s) == CHOOSE r \in {parseYear(t) : t \in {s}} : TRUE

(***************************************************************************)
(* Unary plus on a CSV field (ToNumber of a string): the empty string is   *)
(* 0, a signed decimal literal is its value, "Infinity" is infinite and    *)
(* any other text is NaN.  Exponents, hexadecimal literals and surrounding *)
(* white space do not occur in the fields of the model.                    *)
(***************************************************************************)
InfinityText == <<"I", "n", "f", "i", "n", "i", "t", "y">>

DotAt(s) == IF \E i \in 1..Len(s) : s[i] = "."
            THEN CHOOSE i \in 1..Len(s) : s[i] = "." /\ \A j \in 1..(i - 1) : s[j] # "."
            ELSE 0

\* the two leading fraction digits, in hundredths
Hundredths(f) ==
  IF Len(f) = 0 THEN 0
  ELSE IF Len(f) = 1 THEN DigitVal[f[1]] * 10
  ELSE DigitVal[f[1]] * 10 + DigitVal[f[2]]

ToNumber(s) ==
  LET signed == s # <<>> /\ s[1] \in {"+", "-"}
      sign == IF s # <<>> /\ s[1] = "-" THEN 0 - 1 ELSE 1
      body == IF signed THEN Tail(s) ELSE s
      dot == DotAt(body)
      ip == IF dot = 0 THEN body ELSE SubSeq(body, 1, dot - 1)
      fp == IF dot = 0 THEN <<>> ELSE SubSeq(body, dot + 1, Len(body))
  IN IF s = <<>> THEN Num(0)
     ELSE IF body = InfinityText THEN Infinity(sign)
     ELSE IF AllDigits(ip) /\ AllDigits(fp) /\ Len(ip) + Len(fp) >= 1
     THEN Num(sign * (DigitsValue(ip) * 100 + Hundredths(fp)))
     ELSE NaN

(***************************************************************************)
(* Text of a date written as YYYY-MM-DD, as the literals of config.js and  *)
(* the date column of the data file write it.                              *)
(***************************************************************************)
DigitChar == <<"0", "1", "2", "3", "4", "5", "6", "7", "8", "9">>

RECURSIVE Pad(_, _)
Pad(n, width) ==
  IF width = 0 THEN <<>>
  ELSE Append(Pad(n \div 10, width - 1), DigitChar[(n % 10) + 1])

ISO(y, m, d) == Pad(y, 4) \o <<"-">> \o Pad(m, 2) \o <<"-">> \o Pad(d, 2)

(***************************************************************************)
(* config.js                                                               *)
(***************************************************************************)
CHART_CONFIG ==
  [width |-> 720, height |-> 400,
   margin |-> [top |-> 56, right |-> 92, bottom |-> 65, left |-> 56]]

\* stroke width and opacity in hundredths
LINE_STYLES ==
  [deaths |-> [strokeWidth |-> 180, strokeOpacity |-> 80],
   vaccination |-> [strokeWidth |-> 180, strokeOpacity |-> 80],
   mobile |-> [deaths |-> [strokeWidth |-> 150, strokeOpacity |-> 75]]]

BREAKPOINTS == [mobile |-> 480]

\* the milestone table of each variant: date, number of label lines, yOffset
MILESTONES(v) ==
  IF v = "A"
  THEN << [date |-> ISO(2021, 2, 3), style |-> "primary", lines |-> 1, yOffset |-> 0 - 30],
          [date |-> ISO(2021, 8, 11), style |-> "secondary", lines |-> 1, yOffset |-> 0 - 45],
          [date |-> ISO(2022, 1, 15), style |-> "tertiary", lines |-> 1, yOffset |-> 0 - 30] >>
  ELSE << [date |-> ISO(2021, 2, 3), style |-> "primary", lines |-> 2, yOffset |-> 0 - 40],
          [date |-> ISO(2021, 8, 11), style |-> "secondary", lines |-> 2, yOffset |-> 0 - 40] >>

\* CONTENT.omicronAnnotation of variant B
omicronAnnotation == [date |-> ISO(2022, 3, 1), lines |-> 3]

\* COMMENTS of variant B: yValue in hundredths, dx and dy in pixels
COMMENTS ==
  << [id |-> "yellow", date |-> ISO(2020, 7, 15), yType |-> "left", yValue |-> 2400,
      anchor |-> "start", dx |-> 0, dy |-> 0, lines |-> 2],
     [id |-> "blue", date |-> ISO(2021, 3, 15), yType |-> "left", yValue |-> 13500,
      anchor |-> "middle", dx |-> 0, dy |-> 0 - 10, lines |-> 2],
     [id |-> "violet", date |-> ISO(2021, 11, 10), yType |-> "left", yValue |-> 9000,
      anchor |-> "middle", dx |-> 0, dy |-> 6, lines |-> 2] >>

\* the delay given to debounce, in milliseconds
WAIT == 250

(***************************************************************************)
(* The inputs of the model: the data file and the viewport widths.         *)
(***************************************************************************)
Row(date, deaths, vaccinated) ==
  [date |-> date, deaths_7d |-> deaths, vaccinated_pct |-> vaccinated]

\* rows of the data file: a blank deaths field, plain rows, a date past the
\* end of its month with values out of range, a date in another format,
\* text in a number column, an infinite value
RawRows ==
  { Row(ISO(2020, 12, 24), <<>>, <<"0", ".", "1">>),
    Row(ISO(2021, 1, 1), <<"1", "0">>, <<"1", "0", ".", "1", "3">>),
    Row(ISO(2021, 2, 3), <<"1", "0">>, <<"0", ".", "1">>),
    Row(ISO(2022, 3, 1), <<"1", "5", "0">>, <<"1", "0", ".", "1", "3">>),
    Row(ISO(2021, 2, 30), <<"-", "5">>, <<"1", "5", "0">>),
    Row(<<"0", "1", "/", "0", "1">>, <<"1", "0">>, <<"1", "0", ".", "1", "3">>),
    Row(ISO(2021, 1, 1), <<"N", "A">>, <<"0", ".", "1">>),
    Row(ISO(2020, 12, 24), <<"1", "0">>, InfinityText) }

RECURSIVE SeqsUpTo(_, _)
SeqsUpTo(S, n) ==
  IF n = 0 THEN {<<>>}
  ELSE LET shorter == SeqsUpTo(S, n - 1)
       IN shorter \cup {Append(q, x) : q \in shorter, x \in S}

\* the data file: missing (the request fails), or a header and rows
Files ==
  {[found |-> FALSE, rows |-> <<>>]} \cup
  {[found |-> TRUE, rows |-> r] : r \in SeqsUpTo(RawRows, MaxRows)}

\* window.innerWidth: a mobile width, the breakpoint, a desktop width
Widths == {400, 480, 1024}

(***************************************************************************)
(* utils.js                                                                *)
(***************************************************************************)
\* isMobile that is false at the breakpoint itself
isMobileBelow(innerW, breakpoint) == innerW < breakpoint

isMobile(innerW, breakpoint) == innerW <= breakpoint

getTickCount(mobile) == IF mobile THEN 4 ELSE 6

\* getResponsiveLineStyle that returns the base style at every width
getResponsiveLineStyleBase(baseStyle, mobileStyle, mobile) == baseStyle

\* { ...baseStyle, ...mobileStyle }: the fields of mobileStyle win
getResponsiveLineStyle(baseStyle, mobileStyle, mobile) ==
  IF mobile
  THEN [k \in DOMAIN baseStyle \cup DOMAIN mobileStyle |->
          IF k \in DOMAIN mobileStyle THEN mobileStyle[k] ELSE baseStyle[k]]
  ELSE baseStyle

\* validateData: a non-empty array of rows with a Date and two finite numbers
validateData(data) ==
  IF Len(data) = 0 THEN FALSE
  ELSE \A i \in 1..Len(data) :
         /\ data[i].date.type = "Date"
         /\ data[i].deaths_7d.type = "number"
         /\ data[i].vaccinated_pct.type = "number"
         /\ ~isNaN(data[i].deaths_7d)
         /\ ~isNaN(data[i].vaccinated_pct)
         /\ isFinite(data[i].deaths_7d)
         /\ isFinite(data[i].vaccinated_pct)

(***************************************************************************)
(* formatAxisDate: d3.timeFormat('%b %Y') in the locale in force.          *)
(***************************************************************************)
\* year and month (1..12) of a day number: getFullYear and getMonth + 1
CivilFromDays(days) ==
  LET z == days + 719468
      era == z \div 146097
      doe == z - era * 146097
      yoe == (doe - doe \div 1460 + doe \div 36524 - doe \div 146096) \div 365
      doy == doe - (365 * yoe + yoe \div 4 - yoe \div 100)
      mp == (5 * doy + 2) \div 153
      m == IF mp < 10 THEN mp + 3 ELSE mp - 9
  IN [year |-> yoe + era * 400 + (IF m <= 2 THEN 1 ELSE 0), month |-> m]

\* shortMonths of the default locale of d3 (en-US) and of the locale that
\* initChart of variant B installs
shortMonths(locale) ==
  IF locale = "es"
  THEN << <<"E", "n", "e">>, <<"F", "e", "b">>, <<"M", "a", "r">>,
          <<"A", "b", "r">>, <<"M", "a", "y">>, <<"J", "u", "n">>,
          <<"J", "u", "l">>, <<"A", "g", "o">>, <<"S", "e", "p">>,
          <<"O", "c", "t">>, <<"N", "o", "v">>, <<"D", "i", "c">> >>
  ELSE << <<"J", "a", "n">>, <<"F", "e", "b">>, <<"M", "a", "r">>,
          <<"A", "p", "r">>, <<"M", "a", "y">>, <<"J", "u", "n">>,
          <<"J", "u", "l">>, <<"A", "u", "g">>, <<"S", "e", "p">>,
          <<"O", "c", "t">>, <<"N", "o", "v">>, <<"D", "e", "c">> >>

\* the locale in force: variant B installs its locale when initChart starts
Locale(v, p) == IF v = "B" /\ p # "Uninitialized" THEN "es" ELSE "en-US"

\* formatAxisDate that takes getMonth() for a month number
formatAxisDateMonthOff(locale, date) ==
  CHOOSE r \in {shortMonths(locale)[((c.month + 10) % 12) + 1] \o <<" ">>
                   \o Pad(c.year % 10000, 4) :
                  c \in {CivilFromDays(date.t)}} : TRUE

formatAxisDate(locale, date) ==
  CHOOSE r \in {shortMonths(locale)[c.month] \o <<" ">> \o Pad(c.year % 10000, 4) :
                  c \in {CivilFromDays(date.t)}} : TRUE

(***************************************************************************)
(* initChart: the row mapping and the row filter.                          *)
(***************************************************************************)
parseRow(d) ==
  [date |-> timeParse(d.date),
   deaths_7d |-> ToNumber(d.deaths_7d),
   vaccinated_pct |-> ToNumber(d.vaccinated_pct)]

\* keepRow without the isFinite tests
keepRowNoFinite(d) ==
  /\ d.date.type = "Date"
  /\ d.deaths_7d.type = "number"
  /\ d.vaccinated_pct.type = "number"
  /\ ~isNaN(d.deaths_7d)
  /\ ~isNaN(d.vaccinated_pct)

\* keepRow without the test of the date
keepRowNoDate(d) ==
  /\ d.deaths_7d.type = "number"
  /\ d.vaccinated_pct.type = "number"
  /\ ~isNaN(d.deaths_7d)
  /\ ~isNaN(d.vaccinated_pct)
  /\ isFinite(d.deaths_7d)
  /\ isFinite(d.vaccinated_pct)

keepRow(d) ==
  /\ d.date.type = "Date"
  /\ d.deaths_7d.type = "number"
  /\ d.vaccinated_pct.type = "number"
  /\ ~isNaN(d.deaths_7d)
  /\ ~isNaN(d.vaccinated_pct)
  /\ isFinite(d.deaths_7d)
  /\ isFinite(d.vaccinated_pct)

\* processData that keeps only the first row of each date
RECURSIVE FirstOfEachDate(_, _, _)
FirstOfEachDate(q, i, acc) ==
  IF i > Len(q) THEN acc
  ELSE IF \E k \in 1..Len(acc) : acc[k].date = q[i].date
  THEN FirstOfEachDate(q, i + 1, acc)
  ELSE FirstOfEachDate(q, i + 1, Append(acc, q[i]))

processDataDedup(rawData) ==
  FirstOfEachDate(SelectSeq([i \in 1..Len(rawData) |-> parseRow(rawData[i])], keepRow),
                  1, <<>>)

processData(rawData) ==
  SelectSeq([i \in 1..Len(rawData) |-> parseRow(rawData[i])], keepRow)

\* the drawing-area size of initChart and of the redraw
Config ==
  [width |-> CHART_CONFIG.width - CHART_CONFIG.margin.left - CHART_CONFIG.margin.right,
   height |-> CHART_CONFIG.height - CHART_CONFIG.margin.top - CHART_CONFIG.margin.bottom]

(***************************************************************************)
(* buildScales.  Pixel coordinates are in hundredths of a pixel, rounded   *)
(* down; the domain of the left scale is in hundredths.                    *)
(***************************************************************************)
RECURSIVE Pow10(_)
Pow10(n) == IF n = 0 THEN 1 ELSE 10 * Pow10(n - 1)

RECURSIVE NumDigits(_)
NumDigits(n) == IF n < 10 THEN 1 ELSE 1 + NumDigits(n \div 10)

SetMin(S) == CHOOSE x \in S : \A y \in S : x <= y
SetMax(S) == CHOOSE x \in S : \A y \in S : x >= y

\* d3 tickIncrement(0, span, 10) for a span of at least 0.1: 1, 2 or 5
\* times a power of ten, chosen by comparing span / 10^power with
\* sqrt(50), sqrt(10) and sqrt(2)
tickFactor(scaled) ==
  IF scaled >= 70710679 THEN 10
  ELSE IF scaled >= 31622777 THEN 5
  ELSE IF scaled >= 14142136 THEN 2
  ELSE 1

tickIncrement(span) ==
  CHOOSE r \in {tickFactor(span * Pow10(8 - k)) * Pow10(k - 2) :
                  k \in {NumDigits(span)}} : TRUE

\* the loop of scale.nice(): round the end of [0, stop] up to a multiple of
\* the step until the step repeats; give up after maxIter rounds
RECURSIVE niceLoop(_, _, _, _)
niceLoop(orig, stop, prestep, maxIter) ==
  IF maxIter = 0 THEN orig
  ELSE CHOOSE r \in
         {IF step = prestep THEN stop
          ELSE niceLoop(orig, ((stop + step - 1) \div step) * step, step, maxIter - 1) :
            step \in {tickIncrement(stop)}} : TRUE

\* the far end of the domain [0, m] after nice(); a zero span is left alone
nice(m) ==
  IF m = 0 THEN 0
  ELSE IF m > 0 THEN niceLoop(m, m, 0, 10)
  ELSE 0 - niceLoop(0 - m, 0 - m, 0, 10)

\* the scales from the dates and the deaths values of the data
scalesOf(dates, deaths, config) ==
  [xDomain |-> <<SetMin(dates), SetMax(dates)>>,
   xRange |-> <<0, config.width>>,
   yLeftDomain |-> <<0, CHOOSE r \in {nice(m) : m \in {SetMax(deaths)}} : TRUE>>,
   yLeftRange |-> <<config.height, 0>>,
   yRightDomain |-> <<0, 10000>>,
   yRightRange |-> <<config.height, 0>>]

buildScales(data, config) ==
  CHOOSE r \in
    {scalesOf(dates, deaths, config) :
       dates \in {{data[i].date.t : i \in 1..Len(data)}},
       deaths \in {{data[i].deaths_7d.v : i \in 1..Len(data)}}} : TRUE

\* a continuous d3 scale: a domain of zero span maps everything to the
\* middle of the range; values outside the domain are extrapolated
Interpolate(domain, range, x) ==
  LET span == domain[2] - domain[1]
      num == (x - domain[1]) * (range[2] - range[1]) * 100
  IN IF span = 0 THEN (range[1] + range[2]) * 50
     ELSE IF span > 0 THEN range[1] * 100 + (num \div span)
     ELSE range[1] * 100 + ((0 - num) \div (0 - span))

xScale(sc, date) == Interpolate(sc.xDomain, sc.xRange, date.t)
yLeftScale(sc, v) == Interpolate(sc.yLeftDomain, sc.yLeftRange, v)
yRightScale(sc, v) == Interpolate(sc.yRightDomain, sc.yRightRange, v)

(***************************************************************************)
(* The draw routines.  A chart group is the sequence of the elements       *)
(* appended to it, in document order; every element names the routine     *)
(* that appended it (by) and its class (el).                               *)
(***************************************************************************)
drawAxes(v, g, sc, config, innerW) ==
  LET mobile == isMobile(innerW, BREAKPOINTS.mobile)
  IN g \o
     << [by |-> "drawAxes", el |-> "axis--x", ticks |-> getTickCount(mobile),
         tx |-> 0, ty |-> config.height],
        [by |-> "drawAxes", el |-> "axis--left", ticks |-> IF v = "A" THEN 6 ELSE 5,
         tx |-> 0, ty |-> 0],
        [by |-> "drawAxes", el |-> "axis--right", ticks |-> IF v = "A" THEN 5 ELSE 4,
         tx |-> config.width, ty |-> 0] >>

\* the defined() accessors of the two line generators
deathsDefined(d) ==
  d.date.type = "Date" /\ ~isNaN(d.deaths_7d) /\ isFinite(d.deaths_7d)

vaccinationDefined(d) ==
  d.date.type = "Date" /\ ~isNaN(d.vaccinated_pct) /\ isFinite(d.vaccinated_pct)

\* d3.line() with defined(): one run of points per maximal stretch of
\* consecutive defined data; an undefined datum ends the current run.
\* pts[i] is the point of datum i, def[i] whether datum i is defined.
RECURSIVE LineRuns(_, _, _, _, _)
\* a line generator that skips an undefined datum without ending the run
LineRunsBridged(pts, def, i, cur, done) ==
  LET D == {j \in i..Len(pts) : def[j]}
      joined == [k \in 1..Cardinality(D) |->
                   pts[CHOOSE j \in D : Cardinality({h \in D : h < j}) = k - 1]]
  IN IF D = {} /\ cur = <<>> THEN done ELSE Append(done, cur \o joined)

LineRuns(pts, def, i, cur, done) ==
  IF i > Len(pts)
  THEN IF cur = <<>> THEN done ELSE Append(done, cur)
  ELSE IF def[i]
  THEN LineRuns(pts, def, i + 1, Append(cur, pts[i]), done)
  ELSE LineRuns(pts, def, i + 1, <<>>, IF cur = <<>> THEN done ELSE Append(done, cur))

drawLines(g, data, sc, innerW) ==
  LET mobile == isMobile(innerW, BREAKPOINTS.mobile)
      deathsStyle ==
        getResponsiveLineStyle(LINE_STYLES.deaths, LINE_STYLES.mobile.deaths, mobile)
      dPts == [i \in 1..Len(data) |->
                 [t |-> data[i].date.t, x |-> xScale(sc, data[i].date),
                  y |-> yLeftScale(sc, data[i].deaths_7d.v)]]
      vPts == [i \in 1..Len(data) |->
                 [t |-> data[i].date.t, x |-> xScale(sc, data[i].date),
                  y |-> yRightScale(sc, data[i].vaccinated_pct.v)]]
      dDef == [i \in 1..Len(data) |-> deathsDefined(data[i])]
      vDef == [i \in 1..Len(data) |-> vaccinationDefined(data[i])]
  IN g \o
     << [by |-> "drawLines", el |-> "line--deaths",
         strokeWidth |-> deathsStyle.strokeWidth,
         strokeOpacity |-> deathsStyle.strokeOpacity,
         d |-> LineRuns(dPts, dDef, 1, <<>>, <<>>)],
        [by |-> "drawLines", el |-> "line--vaccination",
         strokeWidth |-> LINE_STYLES.vaccination.strokeWidth,
         strokeOpacity |-> LINE_STYLES.vaccination.strokeOpacity,
         d |-> LineRuns(vPts, vDef, 1, <<>>, <<>>)] >>

HasEl(g, el) == \E i \in 1..Len(g) : g[i].el = el

\* append a marker to the first defs element of the group
AddMarker(g, id) ==
  LET at == CHOOSE i \in 1..Len(g) : g[i].el = "defs" /\ \A j \in 1..(i - 1) : g[j].el # "defs"
  IN [g EXCEPT ![at].markers = @ \cup {id}]

HasMarker(g, id) == \E i \in 1..Len(g) : g[i].el = "defs" /\ id \in g[i].markers

\* one milestone of the table at x: drawn only when x lies in [0, width]
milestoneAt(v, g, m, x, config) ==
  LET arrowYStart == IF v = "A" THEN 5 ELSE m.lines * 12 + 3
      drawn == g \o
        << [by |-> "addMilestones", el |-> "milestone", style |-> m.style,
            x |-> x, y1 |-> 0, y2 |-> config.height],
           [by |-> "addMilestones", el |-> "milestone-label", style |-> m.style,
            x |-> x, y |-> m.yOffset, lines |-> m.lines,
            arrow |-> <<arrowYStart, arrowYStart + 10>>] >>
  IN IF x >= 0 /\ x <= config.width * 100
     THEN IF HasMarker(drawn, "milestone-arrow") THEN drawn
          ELSE AddMarker(drawn, "milestone-arrow")
     ELSE g

drawMilestone(v, g, m, sc, config) ==
  CHOOSE r \in {milestoneAt(v, g, m, x, config) :
                  x \in {xScale(sc, timeParse(m.date))}} : TRUE

\* MILESTONES.forEach
RECURSIVE eachMilestone(_, _, _, _, _, _)
eachMilestone(v, g, ms, i, sc, config) ==
  IF i > Len(ms) THEN g
  ELSE CHOOSE r \in {eachMilestone(v, h, ms, i + 1, sc, config) :
                       h \in {drawMilestone(v, g, ms[i], sc, config)}} : TRUE

addMilestones(v, g, sc, config) ==
  LET withDefs == IF HasEl(g, "defs") THEN g
                  ELSE Append(g, [by |-> "addMilestones", el |-> "defs", markers |-> {}])
  IN CHOOSE r \in {eachMilestone(v, h, ms, 1, sc, config) :
                     h \in {withDefs}, ms \in {MILESTONES(v)}} : TRUE

\* variant A draws a legend block, variant B a label at the end of each line;
\* both draw the source footnote
addDirectLabels(v, g, data, sc, config) ==
  IF Len(data) = 0 THEN g
  ELSE IF v = "A"
  THEN g \o
       << [by |-> "addDirectLabels", el |-> "legend", x |-> (config.width - 160) * 100,
           y |-> (0 - 35) * 100, items |-> 2],
          [by |-> "addDirectLabels", el |-> "source-footnote", x |-> 0,
           y |-> (config.height + 35) * 100, items |-> 1] >>
  ELSE LET last == data[Len(data)]
       IN g \o
          << [by |-> "addDirectLabels", el |-> "source-footnote", x |-> 0,
              y |-> (config.height + 35) * 100, items |-> 1],
             [by |-> "addDirectLabels", el |-> "deaths-label", x |-> (config.width - 5) * 100,
              y |-> yLeftScale(sc, last.deaths_7d.v) - 3500, items |-> 1],
             [by |-> "addDirectLabels", el |-> "vaccination-label",
              x |-> (config.width - 5) * 100,
              y |-> yRightScale(sc, last.vaccinated_pct.v) - 500, items |-> 1] >>

\* addAnnotations of variant B: the Omicron call-out and the comments, each
\* placed at the x of its date whatever that x is
RECURSIVE eachComment(_, _, _, _)
eachComment(g, cs, i, sc) ==
  IF i > Len(cs) THEN g
  ELSE CHOOSE r \in
         {eachComment(Append(g, [by |-> "addAnnotations", el |-> "comment", id |-> c.id,
                                 x |-> x + c.dx * 100, y |-> y + c.dy * 100,
                                 anchor |-> c.anchor, lines |-> c.lines]),
                      cs, i + 1, sc) :
            c \in {cs[i]},
            x \in {xScale(sc, timeParse(cs[i].date))},
            y \in {IF cs[i].yType = "right" THEN yRightScale(sc, cs[i].yValue)
                   ELSE yLeftScale(sc, cs[i].yValue)}} : TRUE

addAnnotations(g, data, sc, config) ==
  CHOOSE r \in
    {eachComment(
       Append(IF HasMarker(g, "arrowhead") THEN g ELSE AddMarker(g, "arrowhead"),
              [by |-> "addAnnotations", el |-> "omicron-annotation",
               x |-> omicronX + 3500,
               y |-> (IF found # {}
                      THEN yLeftScale(sc, data[SetMin(found)].deaths_7d.v)
                      ELSE config.height * 30) - 300,
               lines |-> omicronAnnotation.lines,
               arrow |-> <<omicronX + 3500, omicronX>>]),
       COMMENTS, 1, sc) :
       omicronX \in {xScale(sc, timeParse(omicronAnnotation.date))},
       found \in {{i \in 1..Len(data) :
                     data[i].date = timeParse(omicronAnnotation.date)}}} : TRUE

(***************************************************************************)
(* Module-level state of the chart module and of the page around it.       *)
(***************************************************************************)
VARIABLES
  variant,      \* which chart module the page runs: "A" or "B"
  file,         \* the data file behind d3.csv
  innerWidth,   \* window.innerWidth
  pc,           \* Uninitialized, Loading (awaiting d3.csv), Ready or Error
  fetches,      \* calls of d3.csv so far
  chartData,    \* let chartData: undefined, or the loaded rows
  scales,       \* let scales: undefined, or the scales of the last draw
  root,         \* children of #chart-root: the chart groups, in order
  container,    \* what #chart-container shows: "svg" or "error-message"
  listeners,    \* resize listeners registered on window
  timers,       \* pending setTimeout timers: id and milliseconds left
  timeout,      \* let timeout of the debounce closure: 0 (undefined) or an id
  resizes,      \* resize events dispatched so far
  redraws,      \* runs of the debounced redraw so far
  sinceResize,  \* milliseconds since the last handled resize event, up to WAIT
  calls,        \* routines called by the last run of initChart or the redraw
  burst,        \* handled resize events of the current burst (gaps below WAIT)
  last,         \* the step taken last
  drawnAt,      \* window.innerWidth at the last two runs of the build statements
  call,         \* the exported function called directly, with its arguments
  ret           \* what that call returned

vars ==
  <<variant, file, innerWidth, pc, fetches, chartData, scales, root, container,
    listeners, timers, timeout, resizes, redraws, sinceResize, calls, burst, last,
    drawnAt, call, ret>>

Undefined == <<>>
Some(x) == <<x>>

(***************************************************************************)
(* The "Build chart" statements of initChart and of the redraw.            *)
(***************************************************************************)
\* BuildChart with the lines drawn before the axes
BuildChartLinesFirst(v) ==
  IF v = "A"
  THEN <<"buildScales", "drawLines", "drawAxes", "addMilestones", "addDirectLabels">>
  ELSE <<"buildScales", "drawLines", "drawAxes", "addMilestones", "addDirectLabels",
         "addAnnotations">>

BuildChart(v) ==
  IF v = "A"
  THEN <<"buildScales", "drawAxes", "drawLines", "addMilestones", "addDirectLabels">>
  ELSE <<"buildScales", "drawAxes", "drawLines", "addMilestones", "addDirectLabels",
         "addAnnotations">>

Call(name, v, g, data, sc, innerW) ==
  CASE name = "buildScales" -> g
    [] name = "drawAxes" -> drawAxes(v, g, sc, Config, innerW)
    [] name = "drawLines" -> drawLines(g, data, sc, innerW)
    [] name = "addMilestones" -> addMilestones(v, g, sc, Config)
    [] name = "addDirectLabels" -> addDirectLabels(v, g, data, sc, Config)
    [] name = "addAnnotations" -> addAnnotations(g, data, sc, Config)

\* the statements in order, each on the group the one before left
RECURSIVE CallAll(_, _, _, _, _, _, _)
CallAll(names, i, v, g, data, sc, innerW) ==
  IF i > Len(names) THEN g
  ELSE CHOOSE r \in {CallAll(names, i + 1, v, h, data, sc, innerW) :
                       h \in {Call(names[i], v, g, data, sc, innerW)}} : TRUE

\* the chart group with everything the build statements append to it
ChartGroup(v, data, innerW) ==
  CHOOSE r \in {CallAll(BuildChart(v), 1, v, <<>>, rows, sc, innerW) :
                  rows \in {data}, sc \in {buildScales(data, Config)}} : TRUE

(***************************************************************************)
(* initChart after the await.                                              *)
(***************************************************************************)
\* makeResponsive: #chart-root exists, so the listener is registered
makeResponsive(n) == n + 1

\* catchBlock that only logs: the container keeps showing the svg
catchBlockLogOnly(data, sc, rt, n) ==
  [pc |-> "Error", chartData |-> data, scales |-> sc, root |-> rt,
   container |-> "svg", listeners |-> n, calls |-> <<>>]

\* catchBlock that also sets up the resize listener
catchBlockResponsive(data, sc, rt, n) ==
  [pc |-> "Error", chartData |-> data, scales |-> sc, root |-> rt,
   container |-> "error-message", listeners |-> n + 1, calls |-> <<>>]

\* catch (error): the message replaces the content of #chart-container
catchBlock(data, sc, rt, n) ==
  [pc |-> "Error", chartData |-> data, scales |-> sc, root |-> rt,
   container |-> "error-message", listeners |-> n, calls |-> <<>>]

\* the try block from the resolved d3.csv on; rawData is the rows read
tryBlock(v, rawData, innerW, sc, rt, n) ==
  LET data == processData(rawData)
  IN IF Len(data) = 0
     THEN catchBlock(Some(data), sc, rt, n)
     ELSE [pc |-> "Ready", chartData |-> Some(data),
           scales |-> Some(buildScales(data, Config)),
           root |-> Append(rt, ChartGroup(v, data, innerW)),
           container |-> "svg", listeners |-> makeResponsive(n),
           calls |-> BuildChart(v)]

(***************************************************************************)
(* debounce and the redraw.                                                *)
(***************************************************************************)
clearTimeout(ts, id) == {t \in ts : t.id # id}
setTimeout(ts, id, wait) == ts \cup {[id |-> id, left |-> wait]}

\* executedFunction without the clearTimeout
executedFunctionNoClear(ts, to, id, wait) ==
  [timers |-> setTimeout(ts, id, wait), timeout |-> id]

\* executedFunction: cancel the pending timer, start a new one
executedFunction(ts, to, id, wait) ==
  [timers |-> setTimeout(clearTimeout(ts, to), id, wait), timeout |-> id]

\* later that clears the timer and does not run func
laterNoRun(ts, to) == [timers |-> clearTimeout(ts, to), run |-> FALSE]

\* later: clear the timer and run func
later(ts, to) == [timers |-> clearTimeout(ts, to), run |-> TRUE]

\* resizeChart that filters chartData again, with a test no row passes
resizeChartRefilters(v, cd, sc, innerW) ==
  [chartData |-> Some(<<>>), scales |-> sc, root |-> <<>>, calls |-> <<>>]

\* resizeChart whose rebuild leaves out the labels
resizeChartNoLabels(v, cd, sc, innerW) ==
  IF cd # Undefined /\ Len(cd[1]) > 0
  THEN [chartData |-> cd, scales |-> Some(buildScales(cd[1], Config)),
        root |-> <<CallAll(SelectSeq(BuildChart(v), LAMBDA n : n # "addDirectLabels"),
                           1, v, <<>>, cd[1], buildScales(cd[1], Config), innerW)>>,
        calls |-> BuildChart(v)]
  ELSE [chartData |-> cd, scales |-> sc, root |-> <<>>, calls |-> <<>>]

\* the function given to debounce: clear #chart-root and rebuild the chart
\* from chartData
\* resizeChart that takes the width of the drawing area from the viewport
resizeChartFitsViewport(v, cd, sc, innerW) ==
  LET config == [Config EXCEPT !.width = innerW - CHART_CONFIG.margin.left
                                            - CHART_CONFIG.margin.right]
  IN IF cd # Undefined /\ Len(cd[1]) > 0
     THEN [chartData |-> cd, scales |-> Some(buildScales(cd[1], config)),
           root |-> <<CallAll(BuildChart(v), 1, v, <<>>, cd[1],
                              buildScales(cd[1], config), innerW)>>,
           calls |-> BuildChart(v)]
     ELSE [chartData |-> cd, scales |-> sc, root |-> <<>>, calls |-> <<>>]

resizeChart(v, cd, sc, innerW) ==
  IF cd # Undefined /\ Len(cd[1]) > 0
  THEN [chartData |-> cd, scales |-> Some(buildScales(cd[1], Config)),
        root |-> <<ChartGroup(v, cd[1], innerW)>>,
        calls |-> BuildChart(v)]
  ELSE [chartData |-> cd, scales |-> sc, root |-> <<>>, calls |-> <<>>]

(***************************************************************************)
(* The actions.                                                            *)
(***************************************************************************)
Init ==
  /\ variant \in {"A", "B"}
  /\ file \in Files
  /\ innerWidth \in Widths
  /\ pc = "Uninitialized"
  /\ fetches = 0
  /\ chartData = Undefined
  /\ scales = Undefined
  /\ root = <<>>
  /\ container = "svg"
  /\ listeners = 0
  /\ timers = {}
  /\ timeout = 0
  /\ resizes = 0
  /\ redraws = 0
  /\ sinceResize = WAIT
  /\ calls = <<>>
  /\ burst = 0
  /\ last = "load"
  /\ drawnAt = <<>>
  /\ call = [fn |-> "none"]
  /\ ret = <<>>

\* initChart that registers the resize listener before it awaits d3.csv
InitChartListens ==
  /\ pc = "Uninitialized"
  /\ pc' = "Loading"
  /\ fetches' = fetches + 1
  /\ listeners' = listeners + 1
  /\ last' = "InitChart"
  /\ UNCHANGED <<variant, file, innerWidth, chartData, scales, root, container,
                 timers, timeout, resizes, redraws, sinceResize, calls,
                 burst, drawnAt, call, ret>>

\* the page calls initChart: it runs up to the await of d3.csv
InitChart ==
  /\ pc = "Uninitialized"
  /\ pc' = "Loading"
  /\ fetches' = fetches + 1
  /\ last' = "InitChart"
  /\ UNCHANGED <<variant, file, innerWidth, chartData, scales, root, container,
                 listeners, timers, timeout, resizes, redraws, sinceResize, calls,
                 burst, drawnAt, call, ret>>

\* the widths of the last two runs of the build statements, after a run at w
Drawn(d, w) == IF d = <<>> THEN <<w>> ELSE <<d[Len(d)], w>>

Continue(r) ==
  /\ last' = "Csv"
  /\ pc' = r.pc
  /\ chartData' = r.chartData
  /\ scales' = r.scales
  /\ root' = r.root
  /\ container' = r.container
  /\ listeners' = r.listeners
  /\ calls' = r.calls
  /\ drawnAt' = IF r.pc = "Ready" THEN Drawn(drawnAt, innerWidth) ELSE drawnAt
  /\ UNCHANGED <<variant, file, innerWidth, fetches, timers, timeout, resizes,
                 redraws, sinceResize, burst, call, ret>>

\* d3.csv resolves with the rows of the file
CsvResolve ==
  /\ pc = "Loading"
  /\ file.found
  /\ Continue(tryBlock(variant, file.rows, innerWidth, scales, root, listeners))

\* d3.csv rejects: the file is missing
CsvReject ==
  /\ pc = "Loading"
  /\ ~file.found
  /\ Continue(catchBlock(chartData, scales, root, listeners))

\* the viewport changes to width w and the window dispatches a resize event
Resize(w) ==
  /\ resizes < MaxResizes
  /\ resizes' = resizes + 1
  /\ innerWidth' = w
  /\ IF listeners = 0
     THEN UNCHANGED <<timers, timeout, sinceResize, burst>>
     ELSE LET r == executedFunction(timers, timeout, resizes + 1, WAIT)
          IN /\ timers' = r.timers
             /\ timeout' = r.timeout
             /\ sinceResize' = 0
             /\ burst' = IF sinceResize < WAIT THEN burst + 1 ELSE 1
  /\ last' = "Resize"
  /\ UNCHANGED <<variant, file, pc, fetches, chartData, scales, root, container,
                 listeners, redraws, calls, drawnAt, call, ret>>

\* Quantum milliseconds pass
Tick ==
  /\ sinceResize < WAIT \/ \E t \in timers : t.left > 0
  /\ timers' = {[t EXCEPT !.left = IF @ > Quantum THEN @ - Quantum ELSE 0] : t \in timers}
  /\ sinceResize' = IF sinceResize + Quantum < WAIT THEN sinceResize + Quantum ELSE WAIT
  /\ last' = "Tick"
  /\ UNCHANGED <<variant, file, innerWidth, pc, fetches, chartData, scales, root,
                 container, listeners, timeout, resizes, redraws, calls, burst,
                 drawnAt, call, ret>>

\* TimerFire whose redraw keeps the stroke of a deaths line drawn with the
\* mobile override, as if the override had been written into the base style
TimerFireKeepsOverride ==
  \E t \in timers :
    /\ t.left = 0
    /\ LET l == later(timers \ {t}, timeout)
           r == resizeChart(variant, chartData, scales, innerWidth)
           overridden ==
             /\ Len(root) = 1
             /\ \E j \in 1..Len(root[1]) :
                  /\ root[1][j].el = "line--deaths"
                  /\ root[1][j].strokeWidth = LINE_STYLES.mobile.deaths.strokeWidth
           kept(g) ==
             [j \in 1..Len(g) |->
                IF g[j].el = "line--deaths" /\ overridden
                THEN [g[j] EXCEPT !.strokeWidth = LINE_STYLES.mobile.deaths.strokeWidth,
                                  !.strokeOpacity = LINE_STYLES.mobile.deaths.strokeOpacity]
                ELSE g[j]]
       IN /\ timers' = l.timers
          /\ IF l.run
             THEN /\ chartData' = r.chartData
                  /\ scales' = r.scales
                  /\ root' = [i \in 1..Len(r.root) |-> kept(r.root[i])]
                  /\ calls' = r.calls
                  /\ redraws' = redraws + 1
                  /\ drawnAt' = IF r.calls # <<>> THEN Drawn(drawnAt, innerWidth)
                                ELSE drawnAt
             ELSE UNCHANGED <<chartData, scales, root, calls, redraws, drawnAt>>
    /\ last' = "TimerFire"
    /\ UNCHANGED <<variant, file, innerWidth, pc, fetches, container, listeners,
                   timeout, resizes, sinceResize, burst, call, ret>>

\* TimerFire whose redraw appends to #chart-root without clearing it
TimerFireNoClear ==
  \E t \in timers :
    /\ t.left = 0
    /\ LET l == later(timers \ {t}, timeout)
           r == resizeChart(variant, chartData, scales, innerWidth)
       IN /\ timers' = l.timers
          /\ IF l.run
             THEN /\ chartData' = r.chartData
                  /\ scales' = r.scales
                  /\ root' = root \o r.root
                  /\ calls' = r.calls
                  /\ redraws' = redraws + 1
                  /\ drawnAt' = IF r.calls # <<>> THEN Drawn(drawnAt, innerWidth)
                                ELSE drawnAt
             ELSE UNCHANGED <<chartData, scales, root, calls, redraws, drawnAt>>
    /\ last' = "TimerFire"
    /\ UNCHANGED <<variant, file, innerWidth, pc, fetches, container, listeners,
                   timeout, resizes, sinceResize, burst, call, ret>>

\* a timer whose delay has passed runs its callback, later
TimerFire ==
  \E t \in timers :
    /\ t.left = 0
    /\ LET l == later(timers \ {t}, timeout)
           r == resizeChart(variant, chartData, scales, innerWidth)
       IN /\ timers' = l.timers
          /\ IF l.run
             THEN /\ chartData' = r.chartData
                  /\ scales' = r.scales
                  /\ root' = r.root
                  /\ calls' = r.calls
                  /\ redraws' = redraws + 1
                  /\ drawnAt' = IF r.calls # <<>> THEN Drawn(drawnAt, innerWidth)
                                ELSE drawnAt
             ELSE UNCHANGED <<chartData, scales, root, calls, redraws, drawnAt>>
    /\ last' = "TimerFire"
    /\ UNCHANGED <<variant, file, innerWidth, pc, fetches, container, listeners,
                   timeout, resizes, sinceResize, burst, call, ret>>

Next ==
  \/ InitChart
  \/ CsvResolve
  \/ CsvReject
  \/ \E w \in Widths : Resize(w)
  \/ Tick
  \/ TimerFire

Spec == Init /\ [][Next]_vars

\* the files of the fair specification: missing, header only, and the two
\* rows of the blank-deaths scenario
FairFiles ==
  { [found |-> FALSE, rows |-> <<>>],
    [found |-> TRUE, rows |-> <<>>],
    [found |-> TRUE,
     rows |-> << Row(ISO(2020, 12, 24), <<>>, <<"0", ".", "1">>),
                 Row(ISO(2021, 1, 1), <<"1", "0">>, <<"1", "0", ".", "1", "3">>) >>] }

FairInit == Init /\ file \in FairFiles

\* time passes and due timers run
FairSpec == FairInit /\ [][Next]_vars /\ WF_vars(Tick) /\ WF_vars(TimerFire)

(***************************************************************************)
(* The exported functions called directly, on arguments of the caller's    *)
(* choice.                                                                 *)
(***************************************************************************)
\* longest data sequence handed to drawLines
MaxPoints == 3

\* dates handed to formatAxisDate: the third and the 28th of every month of
\* 2020..2022, and the leap day
AxisDates ==
  {DateOf(DaysFromCivil(y, m, d)) : y \in 2020..2022, m \in 1..12, d \in {3, 28}}
    \cup {DateOf(DaysFromCivil(2020, 2, 29))}

\* data handed to drawLines: a point defined for both series, a point with
\* a NaN deaths value, a point with an infinite percentage, a point
\* without a date
LinePoints ==
  { [date |-> DateOf(DaysFromCivil(2021, 1, 1)), deaths_7d |-> Num(1000),
     vaccinated_pct |-> Num(10)],
    [date |-> DateOf(DaysFromCivil(2021, 3, 1)), deaths_7d |-> NaN,
     vaccinated_pct |-> Num(1013)],
    [date |-> DateOf(DaysFromCivil(2021, 4, 1)), deaths_7d |-> Num(2000),
     vaccinated_pct |-> Infinity(1)],
    [date |-> Null, deaths_7d |-> Num(3000), vaccinated_pct |-> Num(3000)] }

\* the scales handed to drawLines: those of a year of data up to 100 deaths
LineScales ==
  buildScales(<< [date |-> DateOf(DaysFromCivil(2021, 1, 1)), deaths_7d |-> Num(0),
                  vaccinated_pct |-> Num(0)],
                 [date |-> DateOf(DaysFromCivil(2021, 12, 31)), deaths_7d |-> Num(10000),
                  vaccinated_pct |-> Num(9000)] >>, Config)

FormatAxisDate(date) ==
  /\ call' = [fn |-> "formatAxisDate", date |-> date, locale |-> Locale(variant, pc)]
  /\ ret' = formatAxisDate(Locale(variant, pc), date)
  /\ UNCHANGED <<variant, file, innerWidth, pc, fetches, chartData, scales, root,
                 container, listeners, timers, timeout, resizes, redraws, sinceResize,
                 calls, burst, last, drawnAt>>

DrawLines(data) ==
  /\ call' = [fn |-> "drawLines", data |-> data, scales |-> LineScales]
  /\ ret' = drawLines(<<>>, data, LineScales, innerWidth)
  /\ UNCHANGED <<variant, file, innerWidth, pc, fetches, chartData, scales, root,
                 container, listeners, timers, timeout, resizes, redraws, sinceResize,
                 calls, burst, last, drawnAt>>

CallInit == Init /\ ~file.found

CallNext ==
  \/ InitChart
  \/ \E date \in AxisDates : FormatAxisDate(date)
  \/ \E data \in SeqsUpTo(LinePoints, MaxPoints) : DrawLines(data)

CallSpec == CallInit /\ [][CallNext]_vars

(***************************************************************************)
(* Properties.                                                             *)
(***************************************************************************)
\* the loaded sequence, empty while chartData is undefined
Rows == IF chartData = Undefined THEN <<>> ELSE chartData[1]

\* the await of d3.csv has resolved
Loaded == file.found /\ pc \in {"Ready", "Error"}

Count(q, x) == Cardinality({i \in 1..Len(q) : q[i] = x})

\* a row of the file whose date does not parse or whose deaths_7d or
\* vaccinated_pct converts to NaN or to an infinite value
Excluded(r) ==
  \/ timeParse(r.date) = Null
  \/ ToNumber(r.deaths_7d).kind \in {"nan", "infinite"}
  \/ ToNumber(r.vaccinated_pct).kind \in {"nan", "infinite"}

\* C1: once the file is read, each of its rows is in the loaded sequence or
\* not on its own account: a row whose date does not parse or that has a
\* NaN or infinite number is absent, every other row is present as often as
\* the file has it, and the load fails only when no row is left.
C1_RowsKeptIndependently ==
  Loaded =>
    /\ chartData # Undefined
    /\ \A i \in 1..Len(file.rows) :
         LET pr == parseRow(file.rows[i])
         IN IF Excluded(file.rows[i])
            THEN Count(Rows, pr) = 0
            ELSE Count(Rows, pr) =
                   Cardinality({j \in 1..Len(file.rows) : parseRow(file.rows[j]) = pr})
    /\ Len(Rows) = Cardinality({i \in 1..Len(file.rows) : ~Excluded(file.rows[i])})
    /\ (\E i \in 1..Len(file.rows) : ~Excluded(file.rows[i])) => pc = "Ready"

\* a file with a dropped row and a kept row has been loaded
C1_Witness ==
  /\ pc = "Ready"
  /\ last = "Csv"
  /\ \E i \in 1..Len(file.rows) : Excluded(file.rows[i])
  /\ \E i \in 1..Len(file.rows) : ~Excluded(file.rows[i])

\* C2: when the file is missing or no row passes the filter, initChart
\* ends in Error; in Error the fallback message is shown and nothing has
\* been drawn: #chart-root has no child and no draw routine was called.
C2_ErrorShowsFallback ==
  /\ pc = "Error" =>
       /\ container = "error-message"
       /\ root = <<>>
       /\ calls = <<>>
       /\ scales = Undefined
  /\ (pc \in {"Ready", "Error"} /\ (~file.found \/ processData(file.rows) = <<>>)) =>
       pc = "Error"

\* a header-only file has been loaded
C2_Witness ==
  pc = "Error" /\ last = "Csv" /\ file.found /\ file.rows = <<>>

\* the elements of class el in the chart groups of #chart-root
Elements(el) ==
  {root[i][j] : <<i, j>> \in {ij \in (1..Len(root)) \X (1..20) :
                               ij[2] <= Len(root[ij[1]]) /\ root[ij[1]][ij[2]].el = el}}

\* the dates of the points of a line
LineDates(el) ==
  UNION {UNION {{e.d[r][k].t : k \in 1..Len(e.d[r])} : r \in 1..Len(e.d)} : e \in Elements(el)}

\* a row of the file with a blank deaths_7d whose date and vaccinated_pct
\* are present
BlankDeaths(r) ==
  /\ r.deaths_7d = <<>>
  /\ timeParse(r.date) # Null
  /\ r.vaccinated_pct # <<>>
  /\ ToNumber(r.vaccinated_pct).kind = "finite"

\* C3: a row with a blank deaths_7d and a vaccinated_pct gives the
\* vaccination line a point at its date and leaves the deaths line without
\* a point at that date; the vaccination line is one run.
C3_BlankDeathsBreaksDeathsLine ==
  pc = "Ready" =>
    \A i \in 1..Len(file.rows) :
      BlankDeaths(file.rows[i]) =>
        /\ timeParse(file.rows[i].date).t \in LineDates("line--vaccination")
        /\ timeParse(file.rows[i].date).t \notin LineDates("line--deaths")
        /\ \A e \in Elements("line--vaccination") : Len(e.d) = 1

\* C4: Error is terminal.  From Error every step leaves the orchestrator in
\* Error and changes nothing but the viewport width and the count of
\* dispatched events: no fetch, no timer, no clear, no draw.
C4_ErrorIsTerminal ==
  [][pc = "Error" =>
       /\ pc' = "Error"
       /\ UNCHANGED <<fetches, chartData, scales, root, container, listeners,
                      timers, timeout, redraws, calls>>]_vars

\* a resize event was dispatched while in Error
C4_Witness ==
  pc = "Error" /\ last = "Resize" /\ resizes = MaxResizes /\ timers = {} /\ fetches = 1

\* the routines that appended the elements of group g, in document order,
\* a routine named once per stretch of its elements
RECURSIVE Authors(_, _)
Authors(g, i) ==
  IF i > Len(g) THEN <<>>
  ELSE IF i > 1 /\ g[i - 1].by = g[i].by THEN Authors(g, i + 1)
  ELSE <<g[i].by>> \o Authors(g, i + 1)

\* C5 as stated: the first render calls axes, lines, milestones, labels and
\* annotations, each once and in this order, after building the scales.
C5_FiveRoutinesInOrder ==
  (pc = "Ready" /\ redraws = 0) =>
    calls = <<"buildScales", "drawAxes", "drawLines", "addMilestones",
              "addDirectLabels", "addAnnotations">>

\* C5 amended: the first render builds the scales and then calls axes,
\* lines, milestones and labels, each once and in this order, followed by
\* annotations in variant B only; the elements of the one chart group lie in
\* that order.
C5_RoutinesInOrderPerVariant ==
  (pc = "Ready" /\ redraws = 0) =>
    LET drawn == <<"drawAxes", "drawLines", "addMilestones", "addDirectLabels">>
                   \o (IF variant = "B" THEN <<"addAnnotations">> ELSE <<>>)
    IN /\ calls = <<"buildScales">> \o drawn
       /\ Len(root) = 1
       /\ Authors(root[1], 1) = drawn

\* the first render has just finished, in variant B
C5_Witness ==
  pc = "Ready" /\ last = "Csv" /\ redraws = 0 /\ variant = "B" /\ Len(root) = 1

\* C6: a redraw in Ready leaves the loaded sequence as it is, fetches
\* nothing and stays in Ready.
C6_RedrawKeepsData ==
  [][(pc = "Ready" /\ redraws' # redraws) =>
       /\ chartData' = chartData
       /\ fetches' = fetches
       /\ fetches = 1
       /\ pc' = "Ready"]_vars

\* a redraw has just run in Ready
C6_Witness ==
  pc = "Ready" /\ last = "TimerFire" /\ redraws >= 1 /\ Len(Rows) >= 1 /\ Len(root) = 1

\* C7: resize events are coalesced.  At most one debounced redraw is
\* pending at any time; a handled resize event leaves exactly the timer it
\* has just started, with the full delay ahead, and draws nothing; a redraw
\* happens only when the delay has passed since the last event, one at a
\* time, and leaves no timer pending.
C7_ResizeCoalesced ==
  [][/\ Cardinality(timers') <= 1
     /\ (resizes' # resizes /\ listeners > 0) =>
          /\ timers' = {[id |-> resizes', left |-> WAIT]}
          /\ redraws' = redraws
          /\ root' = root
     /\ redraws' # redraws =>
          /\ sinceResize >= WAIT
          /\ redraws' = redraws + 1
          /\ timers # {}
          /\ timers' = {}]_vars

\* one redraw has run after a burst of two or more events
C7_Witness ==
  last = "TimerFire" /\ burst >= 2 /\ redraws = 1 /\ timers = {}

\* C8: in Ready a pending debounced redraw eventually runs, provided time
\* passes and due timers fire; the pending timer goes away only by the
\* redraw running, once, and not before the delay has passed since the last
\* resize event.
C8_TrailingEdgeRedraw ==
  /\ (pc = "Ready" /\ timers # {}) ~> (timers = {})
  /\ [][(timers # {} /\ timers' = {}) =>
          /\ redraws' = redraws + 1
          /\ sinceResize >= WAIT
          /\ \A t \in timers : t.left = 0]_vars

\* the redraw has run after a single resize event and a quiet delay
C8_Witness ==
  /\ pc = "Ready"
  /\ last = "TimerFire"
  /\ burst = 1
  /\ redraws >= 1
  /\ sinceResize = WAIT
  /\ timers = {}

\* C9 as stated: every loaded row has a valid date, deaths_7d >= 0 and
\* vaccinated_pct within 0..100.
C9_RowsInRange ==
  \A i \in 1..Len(Rows) :
    /\ Rows[i].date.type = "Date"
    /\ Rows[i].deaths_7d.kind = "finite"
    /\ Rows[i].deaths_7d.v >= 0
    /\ Rows[i].vaccinated_pct.kind = "finite"
    /\ Rows[i].vaccinated_pct.v >= 0
    /\ Rows[i].vaccinated_pct.v <= 10000

\* C9 amended: every loaded row has a Date for its date and finite numbers
\* for deaths_7d and vaccinated_pct; their sign and range are not checked.
C9_RowsFinite ==
  \A i \in 1..Len(Rows) :
    /\ Rows[i].date.type = "Date"
    /\ Rows[i].deaths_7d.kind = "finite"
    /\ Rows[i].vaccinated_pct.kind = "finite"

\* a row with negative deaths and more than 100 percent has been loaded
C9_Witness ==
  /\ pc = "Ready"
  /\ \E i \in 1..Len(Rows) :
       Rows[i].deaths_7d.v < 0 /\ Rows[i].vaccinated_pct.v > 10000

\* C10 as stated: the loaded sequence is strictly ascending by date.
C10_SortedNoDuplicates ==
  \A i, j \in 1..Len(Rows) : i < j => Rows[i].date.t < Rows[j].date.t

\* C10 amended: the loaded sequence is the kept rows of the file in the
\* order of the file, each of them present, so it is ascending by date
\* without duplicates exactly when the kept rows of the file are.
C10_FileOrderKept ==
  Loaded =>
    LET kept == {i \in 1..Len(file.rows) : ~Excluded(file.rows[i])}
        rank(i) == Cardinality({j \in kept : j <= i})
    IN /\ Len(Rows) = Cardinality(kept)
       /\ \A i \in kept : Rows[rank(i)] = parseRow(file.rows[i])

\* rows out of date order, or of the same date, have been loaded
C10_Witness ==
  /\ pc = "Ready"
  /\ \E i, j \in 1..Len(Rows) : i < j /\ Rows[i].date.t >= Rows[j].date.t

\* the viewport width at the run of the build statements that drew the
\* content of #chart-root
DrawnWidth == drawnAt[Len(drawnAt)]

\* C11: a redraw at the viewport width of the render before it, on the same
\* loaded sequence, leaves #chart-root with the same content: one chart
\* group with the same elements and coordinates.
C11_RenderIdempotent ==
  [][(redraws' # redraws /\ drawnAt # <<>> /\ DrawnWidth = innerWidth) =>
       /\ chartData' = chartData
       /\ root' = root
       /\ Len(root') = 1
       /\ Len(root'[1]) > 0]_vars

\* a redraw has run at the width of the render before it
C11_Witness ==
  /\ pc = "Ready"
  /\ last = "TimerFire"
  /\ redraws >= 1
  /\ Len(drawnAt) = 2
  /\ drawnAt[1] = drawnAt[2]
  /\ Len(root) = 1

\* the dates of the loaded rows, as day numbers
RowDates == {Rows[i].date.t : i \in 1..Len(Rows)}

\* the elements drawn for the milestone of style st: its guide line and its
\* label with the arrow
MilestoneElements(st) ==
  {e \in Elements("milestone") \cup Elements("milestone-label") : e.style = st}

\* C12: in Ready, a milestone dated before the first or after the last
\* loaded date has no guide line, label or arrow; a milestone dated at the
\* first loaded date has its guide line at x = 0; every drawn milestone has
\* its x within [0, width].
C12_MilestoneBoundary ==
  pc = "Ready" =>
    \A k \in 1..Len(MILESTONES(variant)) :
      LET m == MILESTONES(variant)[k]
          t == timeParse(m.date).t
      IN /\ (t < SetMin(RowDates) \/ t > SetMax(RowDates)) => MilestoneElements(m.style) = {}
         /\ t = SetMin(RowDates) =>
              \E e \in Elements("milestone") : e.style = m.style /\ e.x = 0
         /\ \A e \in MilestoneElements(m.style) : e.x >= 0 /\ e.x <= Config.width * 100

\* a date text that lies outside the dates of the loaded rows
OutsideDomain(date) ==
  timeParse(date).t < SetMin(RowDates) \/ timeParse(date).t > SetMax(RowDates)

\* C13: in Ready, the Omicron annotation and every comment whose date lies
\* outside the dates of the loaded rows is absent from the chart.
C13_AnnotationsClipped ==
  pc = "Ready" =>
    /\ OutsideDomain(omicronAnnotation.date) => Elements("omicron-annotation") = {}
    /\ \A k \in 1..Len(COMMENTS) :
         OutsideDomain(COMMENTS[k].date) =>
           \A e \in Elements("comment") : e.id # COMMENTS[k].id

\* the elements of class el in the chart groups of a root rt
ElementsOf(rt, el) ==
  {rt[i][j] : <<i, j>> \in {ij \in (1..Len(rt)) \X (1..20) :
                             ij[2] <= Len(rt[ij[1]]) /\ rt[ij[1]][ij[2]].el = el}}

\* C14: a redraw at a width below the mobile breakpoint, of a chart drawn
\* at a width above it, replaces an x axis of 6 ticks by one of 4 ticks and
\* a deaths line of the base stroke width by one of the narrower stroke
\* width of the mobile override; the vaccination line, which has no
\* override, keeps its width.
C14_DesktopToMobile ==
  [][(redraws' # redraws /\ drawnAt # <<>> /\ DrawnWidth > BREAKPOINTS.mobile
        /\ innerWidth < BREAKPOINTS.mobile) =>
       /\ {e.ticks : e \in ElementsOf(root, "axis--x")} = {6}
       /\ {e.ticks : e \in ElementsOf(root', "axis--x")} = {4}
       /\ {e.strokeWidth : e \in ElementsOf(root, "line--deaths")} =
            {LINE_STYLES.deaths.strokeWidth}
       /\ {e.strokeWidth : e \in ElementsOf(root', "line--deaths")} =
            {LINE_STYLES.mobile.deaths.strokeWidth}
       /\ LINE_STYLES.mobile.deaths.strokeWidth < LINE_STYLES.deaths.strokeWidth
       /\ {e.strokeWidth : e \in ElementsOf(root', "line--vaccination")} =
            {LINE_STYLES.vaccination.strokeWidth}]_vars

\* a chart drawn at a desktop width has been redrawn at a mobile width
C14_Witness ==
  /\ pc = "Ready"
  /\ last = "TimerFire"
  /\ Len(drawnAt) = 2
  /\ drawnAt[1] > BREAKPOINTS.mobile
  /\ drawnAt[2] < BREAKPOINTS.mobile
  /\ \E e \in Elements("axis--x") : e.ticks = 4

\* C15 as stated: the bottom axis has 4 ticks when the viewport width it
\* was drawn at is below the breakpoint and 6 ticks when it is at or above.
C15_TicksBelowBreakpoint ==
  pc = "Ready" =>
    {e.ticks : e \in Elements("axis--x")} =
      {IF DrawnWidth < BREAKPOINTS.mobile THEN 4 ELSE 6}

\* C15 amended: the bottom axis has 4 ticks when the viewport width it was
\* drawn at is at or below the breakpoint and 6 ticks when it is above.
C15_TicksAtOrBelowBreakpoint ==
  pc = "Ready" =>
    /\ BREAKPOINTS.mobile = 480
    /\ {e.ticks : e \in Elements("axis--x")} =
         {IF DrawnWidth <= BREAKPOINTS.mobile THEN 4 ELSE 6}

\* the chart has been drawn at a viewport width equal to the breakpoint
C15_Witness ==
  /\ pc = "Ready"
  /\ DrawnWidth = BREAKPOINTS.mobile
  /\ \E e \in Elements("axis--x") : e.ticks = 4

\* the text of the label of 3 February 2021 as C16 has it, and as the
\* locale tables have it
LabelLowerCase == <<"f", "e", "b", " ", "2", "0", "2", "1">>
LabelCapital == <<"F", "e", "b", " ", "2", "0", "2", "1">>

\* C16 as stated: formatAxisDate of 3 February 2021 is "feb 2021".
C16_LowerCaseLabel ==
  (call.fn = "formatAxisDate" /\ call.date = DateOf(DaysFromCivil(2021, 2, 3))) =>
    ret = LabelLowerCase

\* C16 amended: formatAxisDate of 3 February 2021 is "Feb 2021"; of any
\* date it is three letters, a space and four digits, the letters being
\* the entry of shortMonths of the locale in force at the call for the
\* month the date lies in, the digits the year it lies in.
C16_CapitalisedLabel ==
  call.fn = "formatAxisDate" =>
    /\ call.date = DateOf(DaysFromCivil(2021, 2, 3)) => ret = LabelCapital
    /\ Len(ret) = 8
    /\ ret[4] = " "
    /\ AllDigits(SubSeq(ret, 5, 8))
    /\ \E m \in 1..12 :
         LET y == DigitsValue(SubSeq(ret, 5, 8))
         IN /\ SubSeq(ret, 1, 3) = shortMonths(call.locale)[m]
            /\ DaysFromCivil(y, m, 1) <= call.date.t
            /\ call.date.t < DaysFromCivil(y + (m \div 12), (m % 12) + 1, 1)

\* formatAxisDate has returned the label of 3 February 2021 in the locale
\* of variant B
C16_Witness ==
  /\ call.fn = "formatAxisDate"
  /\ call.date = DateOf(DaysFromCivil(2021, 2, 3))
  /\ call.locale = "es"
  /\ ret = LabelCapital

\* a point is defined for a series: date present, value neither NaN nor
\* infinite
PointDefined(p, field) == p.date.type = "Date" /\ p[field].kind = "finite"

\* the runs of a drawn series are the maximal stretches of consecutive
\* defined points of the data, in order, each point at its own coordinates
MaximalRuns(data, field, runs, sc) ==
  LET D == {i \in 1..Len(data) : PointDefined(data[i], field)}
      S == {i \in D : (i - 1) \notin D}
      start(k) == CHOOSE i \in S : Cardinality({j \in S : j < i}) = k - 1
      y(p) == IF field = "deaths_7d" THEN yLeftScale(sc, p[field].v)
              ELSE yRightScale(sc, p[field].v)
  IN /\ Len(runs) = Cardinality(S)
     /\ D = {} => runs = <<>>
     /\ \A k \in 1..Len(runs) :
          /\ Len(runs[k]) > 0
          /\ (start(k) + Len(runs[k])) \notin D
          /\ \A j \in 1..Len(runs[k]) :
               /\ (start(k) + j - 1) \in D
               /\ runs[k][j].t = data[start(k) + j - 1].date.t
               /\ runs[k][j].x = xScale(sc, data[start(k) + j - 1].date)
               /\ runs[k][j].y = y(data[start(k) + j - 1])

\* C17: drawLines, for any data sequence, returns one path per series whose
\* runs are exactly the maximal contiguous runs of the points defined for
\* that series: an undefined point ends a run and is never bridged, a
\* series without a defined point has an empty path, and the runs of one
\* series are determined by the definedness of that series alone.
C17_LinesBreakAtGaps ==
  call.fn = "drawLines" =>
    /\ Len(ret) = 2
    /\ ret[1].el = "line--deaths"
    /\ ret[2].el = "line--vaccination"
    /\ MaximalRuns(call.data, "deaths_7d", ret[1].d, call.scales)
    /\ MaximalRuns(call.data, "vaccinated_pct", ret[2].d, call.scales)

\* drawLines has drawn three points of which the middle one has a NaN
\* deaths value: two runs of deaths, one run of three vaccination points
C17_Witness ==
  /\ call.fn = "drawLines"
  /\ Len(call.data) = 3
  /\ isNaN(call.data[2].deaths_7d)
  /\ Len(ret[1].d) = 2
  /\ Len(ret[2].d) = 1
  /\ Len(ret[2].d[1]) = 3

\* the deaths values of the loaded sequence, in hundredths
RowDeaths == {Rows[i].deaths_7d.v : i \in 1..Len(Rows)}

\* C18: for every non-empty loaded sequence buildScales gives the right
\* scale the domain [0, 100] and the left scale a domain [0, c] with c at
\* least the largest deaths value; both map 0 to height and the far end of
\* their domain to 0, every loaded point with a non-negative deaths value
\* has a left y within [0, height], and the time scale maps the earliest
\* date to 0 and the latest date to width.
C18_ScalesSpanTheirRanges ==
  (pc = "Ready" /\ Rows # <<>>) =>
    LET sc == scales[1]
        c == sc.yLeftDomain[2]
    IN /\ sc.yRightDomain = <<0, 10000>>
       /\ sc.yLeftDomain[1] = 0
       /\ c >= SetMax(RowDeaths)
       /\ yLeftScale(sc, 0) = Config.height * 100
       /\ yLeftScale(sc, c) = 0
       /\ yRightScale(sc, 0) = Config.height * 100
       /\ yRightScale(sc, 10000) = 0
       /\ \A v \in RowDeaths :
            v >= 0 => yLeftScale(sc, v) \in 0..(Config.height * 100)
       /\ xScale(sc, DateOf(SetMin(RowDates))) = 0
       /\ xScale(sc, DateOf(SetMax(RowDates))) = Config.width * 100

\* the dates of the points of a run, in order
RunDates(run) == [j \in 1..Len(run) |-> run[j].t]

\* C19: in every Ready state each row of the loaded sequence is defined
\* for both line generators, validateData holds of the sequence, the
\* sequence is not empty, and each of the two drawn lines is one run whose
\* points are at the dates of the rows, row by row: the two lines span the
\* same dates and neither has a gap.
C19_ReadyRowsAllDefined ==
  pc = "Ready" =>
    /\ Rows # <<>>
    /\ \A i \in 1..Len(Rows) : deathsDefined(Rows[i]) /\ vaccinationDefined(Rows[i])
    /\ validateData(Rows)
    /\ Cardinality(ElementsOf(root, "line--deaths")) = 1
    /\ Cardinality(ElementsOf(root, "line--vaccination")) = 1
    /\ \A e \in ElementsOf(root, "line--deaths") \cup ElementsOf(root, "line--vaccination") :
         /\ Len(e.d) = 1
         /\ RunDates(e.d[1]) = [i \in 1..Len(Rows) |-> Rows[i].date.t]

\* a chart of two loaded rows, one of them read from a blank deaths field,
\* has been redrawn
C19_Witness ==
  /\ pc = "Ready"
  /\ redraws >= 1
  /\ Len(Rows) = 2
  /\ Len(file.rows) = 2
  /\ file.rows[1].deaths_7d = <<>>
  /\ \A e \in ElementsOf(root, "line--deaths") : Len(e.d) = 1 /\ Len(e.d[1]) = 2

\* C20: a resize event dispatched before the initial render (initChart not
\* yet called, or its load pending) clears nothing, draws nothing and
\* schedules nothing; the resize listener is registered only in the step
\* that completes the initial draw; and a redraw runs only in the Ready
\* state, on a data sequence that is set.
C20_NoRedrawBeforeInitialRender ==
  [][ /\ (pc \in {"Uninitialized", "Loading"} /\ resizes' # resizes) =>
           /\ timers = {}
           /\ timers' = {}
           /\ listeners = 0
           /\ UNCHANGED <<pc, timeout, root, redraws, calls, chartData, scales,
                          drawnAt, listeners, container>>
      /\ (listeners' # listeners) =>
           /\ pc = "Loading"
           /\ pc' = "Ready"
           /\ Len(root') = 1
           /\ drawnAt' # <<>>
           /\ timers' = {}
           /\ redraws' = 0
      /\ (redraws' # redraws) =>
           /\ pc = "Ready"
           /\ listeners > 0
           /\ chartData # Undefined
           /\ Len(chartData[1]) > 0
           /\ drawnAt # <<>> ]_vars

\* the initial render has just completed after a resize event that was
\* dispatched while the load was pending: nothing is scheduled
C20_Witness ==
  /\ pc = "Ready"
  /\ last = "Csv"
  /\ resizes >= 1
  /\ timers = {}
  /\ redraws = 0
  /\ listeners = 1
  /\ Len(root) = 1

\* the number of elements of class el in a chart group
CountEl(g, el) == Cardinality({j \in 1..Len(g) : g[j].el = el})

\* the classes of which one build appends exactly one element
SingleElements == {"axis--x", "axis--left", "axis--right", "line--deaths",
                   "line--vaccination", "defs"}

\* C21: in every Ready state, after the initial render and after any
\* number of redraws, #chart-root holds exactly one chart group, the
\* group holds what one run of the build statements at the width of the
\* last draw appends and nothing else, with one x axis, one left axis, one
\* right axis, one line per series and one defs element.
C21_OneChartGroup ==
  pc = "Ready" =>
    /\ Len(root) = 1
    /\ root[1] = ChartGroup(variant, Rows, DrawnWidth)
    /\ \A el \in SingleElements : CountEl(root[1], el) = 1

\* the chart has been redrawn twice
C21_Witness ==
  /\ pc = "Ready"
  /\ redraws = 2
  /\ last = "TimerFire"
  /\ Len(root) = 1
  /\ Len(root[1]) > 0

\* an element without the attributes that drawAxes and drawLines take from
\* the viewport width: the tick count and the stroke of the line
Geometry(e) ==
  IF e.el = "axis--x" THEN [e EXCEPT !.ticks = 0]
  ELSE IF e.el \in {"line--deaths", "line--vaccination"}
  THEN [e EXCEPT !.strokeWidth = 0, !.strokeOpacity = 0]
  ELSE e

\* C22: every redraw builds the scales for the drawing area of 572 by 279
\* that the initial render used, whatever the viewport width: the scales
\* after the redraw are those before it, and every element of the chart
\* group (axes, points of the lines, milestones, labels, annotations) is
\* where it was.
C22_RedrawKeepsGeometry ==
  [][(redraws' # redraws) =>
       /\ scales' = scales
       /\ scales'[1].xRange = <<0, 572>>
       /\ scales'[1].yLeftRange = <<279, 0>>
       /\ scales'[1].yRightRange = <<279, 0>>
       /\ Len(root) = 1
       /\ Len(root') = 1
       /\ Len(root'[1]) = Len(root[1])
       /\ \A j \in 1..Len(root[1]) : Geometry(root'[1][j]) = Geometry(root[1][j])]_vars

\* a chart of two rows has been redrawn at a width other than the one of
\* its initial render
C22_Witness ==
  /\ pc = "Ready"
  /\ last = "TimerFire"
  /\ redraws = 1
  /\ Len(Rows) = 2
  /\ Len(drawnAt) = 2
  /\ drawnAt[1] # drawnAt[2]
  /\ scales[1].xRange = <<0, 572>>

\* C23: the content of #chart-root after a redraw is what the build
\* statements give for the loaded sequence and the viewport width at the
\* moment the timer fires, whatever the widths of earlier events and
\* redraws; at a width above the mobile breakpoint the x axis has 6 ticks
\* and the deaths line the stroke width and opacity of the base style, also
\* when the chart before it was drawn with the mobile override.
C23_RedrawDependsOnCurrentWidth ==
  [][(redraws' # redraws) =>
       /\ root' = <<ChartGroup(variant, Rows, innerWidth)>>
       /\ innerWidth > BREAKPOINTS.mobile =>
            /\ \A e \in ElementsOf(root', "axis--x") : e.ticks = 6
            /\ \A e \in ElementsOf(root', "line--deaths") :
                 /\ e.strokeWidth = LINE_STYLES.deaths.strokeWidth
                 /\ e.strokeOpacity = LINE_STYLES.deaths.strokeOpacity]_vars

\* the chart has been redrawn at a mobile width and then at a desktop
\* width: 6 ticks and the base stroke
C23_Witness ==
  /\ pc = "Ready"
  /\ last = "TimerFire"
  /\ redraws = 2
  /\ Len(drawnAt) = 2
  /\ drawnAt[1] <= BREAKPOINTS.mobile
  /\ drawnAt[2] > BREAKPOINTS.mobile
  /\ \E e \in ElementsOf(root, "axis--x") : e.ticks = 6
  /\ \E e \in ElementsOf(root, "line--deaths") :
       /\ e.strokeWidth = LINE_STYLES.deaths.strokeWidth
       /\ e.strokeOpacity = LINE_STYLES.deaths.strokeOpacity

====
